---------------------------- MODULE Spec2Model ----------------------------
(***************************************************************************)
(* Image upload and gallery application.                                   *)
(*                                                                         *)
(*   ServerSpec : the POST /images handler of the API router (fan-out of   *)
(*                one outbound call per file, classification of every      *)
(*                outcome, aggregation into one HTTP response).            *)
(*   ProxySpec  : the GET /images, GET /image/:imageid and DELETE          *)
(*                /image/:imageid handlers of the same router (one         *)
(*                outbound call, mapping of its outcome to a response).    *)
(*   ClientSpec : the UploadConsole component (selection, rename, delete,  *)
(*                reset, submit and reconciliation of the pending set),    *)
(*                with every kind of selection and of new name; the rows   *)
(*                are edited while no upload is in flight.                 *)
(*   UploadSpec : the same component and handlers, with the rows deleted   *)
(*                and renamed while the requests of a submission are in    *)
(*                flight.                                                  *)
(*   UploadLive : UploadSpec with the fairness of the event loop: every    *)
(*                request settles, and a resolved Promise.all resumes      *)
(*                handleSubmit.                                            *)
(*   EditSpec   : the selection, rename, delete and reset handlers alone,  *)
(*                with several shapes of file name and of new name.        *)
(*   AppSpec    : UploadConsole and ImageGrid under App, which passes      *)
(*                handleUploadSuccess to the former as onUploadSuccess     *)
(*                and the recompute flag to the latter.                    *)
(*   GallerySpec: ImageGrid alone, with its list requests, its delete      *)
(*                requests and the uploads that toggle recompute.          *)
(*                                                                         *)
(* UploadConsole receives onUploadSuccess from its parent.  Every          *)
(* specification but AppSpec runs the component as its tests do, with a    *)
(* callback that only counts its calls (refreshCalls).                     *)
(*                                                                         *)
(* A step of an async handler is the code between two awaits.  The step    *)
(* that follows the last settled request (Reconcile, Respond) runs in the  *)
(* same microtask checkpoint, so no user event comes between the two.      *)
(***************************************************************************)
EXTENDS Integers, Sequences, FiniteSets, TLC

VARIABLES
    \* ---- server: one POST /images request at a time ----
    req,            \* req.files as the handler sees it
    responses,      \* the responseTracker of every file (settled or not)
    inflight,       \* indexes of the files whose axios.post is still pending
    calls,          \* number of axios.post calls issued, per file index
    outcomes,       \* what axios.post did for each file (NoOutcome: nothing yet)
    sent,           \* the responses written to res, in order
    spc,            \* position of the handler: "idle", "fanout", "done"
    \* ---- server: one request to a list, fetch or delete route at a time ----
    preq,           \* the route requested and req.params.imageid
    hostCalls,      \* outbound calls issued for the request
    proxyOutcome,   \* what the outbound call did (NoProxyOutcome: nothing yet)
    proxySent,      \* the responses written to res, in order
    ppc,            \* position of the handler: "idle", "awaiting", "done"
    \* ---- client: the UploadConsole component ----
    selectedFiles,        \* React state: the pending set
    isUploading,          \* React state
    uploadProgressCount,  \* React state
    batch,          \* the selectedFiles array captured by handleSubmit
    reqState,       \* per file of batch: "inflight", "ok", "nonok", "thrown"
    detached,       \* ids whose state entry is no longer the object of batch
    pc,             \* position of handleSubmit: "idle", "awaiting", "joined"
    alertText,      \* the alert raised by the last handler step (or NoAlert)
    refreshCalls,   \* calls of onUploadSuccess made by the last submission
    zeroHits,       \* times uploadProgressCount became 0 in the last submission
    \* ---- client: App and the ImageGrid component ----
    recompute,      \* React state of App
    listFetches,    \* GET /images requests of ImageGrid still pending
    isError,        \* React state of ImageGrid
    images,         \* React state of ImageGrid: the displayed list
    isDeleting,     \* React state of ImageGrid
    deleting,       \* the image id of the DELETE request in flight (or NoDelete)
    gridAlert,      \* the alert raised by the last step of ImageGrid (or NoAlert)
    listReplies,    \* per pending GET /images request: the list the host
                    \* answered with, or Unserved
    hostImages      \* the images of the account at the host

proxyVars == <<preq, hostCalls, proxyOutcome, proxySent, ppc>>
serverVars == <<req, responses, inflight, calls, outcomes, sent, spc, proxyVars>>
clientVars == <<selectedFiles, isUploading, uploadProgressCount, batch,
                reqState, detached, pc, alertText, refreshCalls, zeroHits>>
galleryVars == <<recompute, listFetches, isError, images, isDeleting,
                 deleting, gridAlert, listReplies, hostImages>>
vars == <<serverVars, clientVars, galleryVars>>

RECURSIVE SeqFilter(_, _)
SeqFilter(s, keep) ==
    IF s = <<>> THEN <<>>
    ELSE IF keep[1] THEN <<Head(s)>> \o SeqFilter(Tail(s), Tail(keep))
         ELSE SeqFilter(Tail(s), Tail(keep))

\* File names and links are sequences of characters.
Digits == {"0", "1", "2", "3", "4", "5", "6", "7", "8", "9"}
Lower == {"a", "b", "c", "d", "e", "f", "g", "h", "i", "j", "k", "l", "m",
          "n", "o", "p", "q", "r", "s", "t", "u", "v", "w", "x", "y", "z"}
Upper == {"A", "B", "C", "D", "E", "F", "G", "H", "I", "J", "K", "L", "M",
          "N", "O", "P", "Q", "R", "S", "T", "U", "V", "W", "X", "Y", "Z"}

(***************************************************************************)
(*                                SERVER                                   *)
(***************************************************************************)

\* Bound: the largest number of files attached to one request.
MaxFiles == 3

\* The value of a property that was never assigned (responseTracker.status
\* before the outbound call settles, or for a file of a disallowed type).
Undefined == -1

\* Imgur's accepted media types.
AllowedTypes ==
    {"image/jpeg", "image/jpg", "image/gif", "image/png", "image/apng",
     "image/tiff"}

\* The files a request can carry: originalname and declared media type.
UploadedFiles ==
    { [originalname |-> "test-file.jpg", mimetype |-> "image/jpeg"],
      [originalname |-> "anim.gif",      mimetype |-> "image/gif"],
      [originalname |-> "test-file.txt", mimetype |-> "text/plain"] }

RECURSIVE SeqsUpTo(_, _)
SeqsUpTo(S, n) ==
    IF n = 0 THEN {<<>>}
    ELSE LET shorter == SeqsUpTo(S, n - 1)
         IN  shorter \cup {Append(s, x) : s \in {t \in shorter : Len(t) = n - 1}, x \in S}

\* req.files after multer: undefined, a value that is no array, or an array.
Requests ==
    { [kind |-> "undefined", files |-> <<>>],
      [kind |-> "object",    files |-> <<>>] }
    \cup { [kind |-> "array", files |-> fs] : fs \in SeqsUpTo(UploadedFiles, MaxFiles) }

NoRequest == [kind |-> "none", files |-> <<>>]

\* What axios.post can do: resolve with a 2xx status (the default
\* validateStatus), reject with a response carrying a status, reject
\* with no response at all.
HostOutcomes ==
    { [kind |-> "resolved", status |-> 200],
      [kind |-> "resolved", status |-> 201],
      [kind |-> "rejected", status |-> 400],
      [kind |-> "rejected", status |-> 500],
      [kind |-> "noResponse", status |-> Undefined] }

NoOutcome == [kind |-> "none", status |-> Undefined]

NoFilesMessage == "No files attached or files are incorrectly formatted."
SuccessMessage == "success"
ServerErrorMessage == "Failed to upload images to Imgur."
CheckFilesMessage ==
    "Failed to upload some images to Imgur. Ensure that all files uploaded are of the correct size and type."

\* The guard without its Array.isArray test.
NoFilesGuardNoArrayTest(r) ==
    \/ r.kind = "undefined"
    \/ (r.kind = "array" /\ Len(r.files) = 0)

\* !req.files || req.files.length === 0 || !Array.isArray(req.files)
NoFilesGuard(r) ==
    \/ r.kind = "undefined"
    \/ (r.kind = "array" /\ Len(r.files) = 0)
    \/ r.kind # "array"

\* The type check left out: every file is sent to the host.
IsAllowedTypeAlways(file) == TRUE

IsAllowedType(file) == file.mimetype \in AllowedTypes

\* The responseTracker as created for a file.
NewTracker(file) ==
    [file |-> file.originalname, success |-> FALSE, typeError |-> FALSE,
     status |-> Undefined]

\* The tracker returned without an outbound call, for a disallowed type.
TypeErrorTracker(file) == [NewTracker(file) EXCEPT !.typeError = TRUE]

\* The catch branch without its "?? 500" default.
ClassifyNoDefault(tracker, outcome) ==
    CASE outcome.kind = "resolved" ->
            [tracker EXCEPT !.status = outcome.status,
                            !.success = (outcome.status = 200)]
      [] OTHER ->
            [tracker EXCEPT !.status = outcome.status]

\* try { status = response.status; success = status === 200 }
\* catch { status = error?.response?.status ?? 500 }
Classify(tracker, outcome) ==
    CASE outcome.kind = "resolved" ->
            [tracker EXCEPT !.status = outcome.status,
                            !.success = (outcome.status = 200)]
      [] outcome.kind = "rejected" ->
            [tracker EXCEPT !.status = outcome.status]
      [] OTHER ->
            [tracker EXCEPT !.status = 500]

\* The aggregation with "some" in place of "every".
AggregateSome(rs) ==
    IF \E i \in 1..Len(rs) : rs[i].success
    THEN [status |-> 200, body |-> SuccessMessage]
    ELSE IF \E i \in 1..Len(rs) : rs[i].status = 500
         THEN [status |-> 500, body |-> ServerErrorMessage]
         ELSE [status |-> 400, body |-> CheckFilesMessage]

\* The if / else if / else that ends the handler.
Aggregate(rs) ==
    IF \A i \in 1..Len(rs) : rs[i].success
    THEN [status |-> 200, body |-> SuccessMessage]
    ELSE IF \E i \in 1..Len(rs) : rs[i].status = 500
         THEN [status |-> 500, body |-> ServerErrorMessage]
         ELSE [status |-> 400, body |-> CheckFilesMessage]

\* The guard's early return.
RejectNoFiles == [status |-> 400, body |-> NoFilesMessage]

\* A request arrives: the guard, then the synchronous part of every map
\* callback (the type check, and the axios.post call for an allowed type).
PostImages(r) ==
    /\ spc # "fanout"
    /\ req' = r
    /\ IF NoFilesGuard(r)
       THEN /\ sent' = <<RejectNoFiles>>
            /\ responses' = <<>>
            /\ inflight' = {}
            /\ calls' = <<>>
            /\ outcomes' = <<>>
            /\ spc' = "done"
       ELSE /\ sent' = <<>>
            /\ responses' = [i \in 1..Len(r.files) |->
                                IF IsAllowedType(r.files[i])
                                THEN NewTracker(r.files[i])
                                ELSE TypeErrorTracker(r.files[i])]
            /\ inflight' = {i \in 1..Len(r.files) : IsAllowedType(r.files[i])}
            /\ calls' = [i \in 1..Len(r.files) |->
                            IF IsAllowedType(r.files[i]) THEN 1 ELSE 0]
            /\ outcomes' = [i \in 1..Len(r.files) |-> NoOutcome]
            /\ spc' = "fanout"
    /\ UNCHANGED proxyVars
    /\ UNCHANGED clientVars
    /\ UNCHANGED galleryVars

\* The outbound call of file i settles.
AxiosSettle(i, outcome) ==
    /\ spc = "fanout"
    /\ i \in inflight
    /\ responses' = [responses EXCEPT ![i] = Classify(responses[i], outcome)]
    /\ inflight' = inflight \ {i}
    /\ outcomes' = [outcomes EXCEPT ![i] = outcome]
    /\ UNCHANGED <<req, calls, sent, spc>>
    /\ UNCHANGED proxyVars
    /\ UNCHANGED clientVars
    /\ UNCHANGED galleryVars

\* Promise.all has resolved: the aggregate response is written.
Respond ==
    /\ spc = "fanout"
    /\ inflight = {}
    /\ sent' = Append(sent, Aggregate(responses))
    /\ spc' = "done"
    /\ UNCHANGED <<req, responses, inflight, calls, outcomes>>
    /\ UNCHANGED proxyVars
    /\ UNCHANGED clientVars
    /\ UNCHANGED galleryVars

ServerNext ==
    \/ \E r \in Requests : PostImages(r)
    \/ \E i \in inflight, o \in HostOutcomes : AxiosSettle(i, o)
    \/ Respond

(***************************************************************************)
(*                  SERVER: LIST, FETCH AND DELETE ROUTES                  *)
(***************************************************************************)

\* Bound: the largest number of images in the host's list response.
MaxImages == 2

\* Links are sequences of characters.
JpgLink    == <<"h", "/", "a", ".", "j", "p", "g">>
TwoDotLink == <<"h", "/", "a", ".", "b", ".", "p", "n", "g">>
UpperLink  == <<"h", "/", "a", ".", "J", "P", "G">>
DigitLink  == <<"h", "/", "a", ".", "m", "p", "4">>
BareLink   == <<"h", "/", "a">>
SlashLink  == <<"h", ".", "i", "o", "/">>
DotEndLink == <<"h", "/", "a", ".">>

\* The image objects of the host's responses.
HostImages ==
    { [id |-> "jpg",    link |-> JpgLink,    title |-> "one"],
      [id |-> "twodot", link |-> TwoDotLink, title |-> "two"],
      [id |-> "upper",  link |-> UpperLink,  title |-> "three"],
      [id |-> "digit",  link |-> DigitLink,  title |-> "four"],
      [id |-> "bare",   link |-> BareLink,   title |-> "five"],
      [id |-> "slash",  link |-> SlashLink,  title |-> "six"],
      [id |-> "dotend", link |-> DotEndLink, title |-> "seven"] }

\* req.params.imageid
ImageIds == {"jpg", "twodot", "gone"}

NoData == <<>>

\* How an outbound call can fail: rejected with a response carrying a
\* status, or rejected with no response at all.
HostRejections ==
    { [kind |-> "rejected",   status |-> 404,       wellFormed |-> FALSE, data |-> NoData],
      [kind |-> "rejected",   status |-> 400,       wellFormed |-> FALSE, data |-> NoData],
      [kind |-> "rejected",   status |-> 500,       wellFormed |-> FALSE, data |-> NoData],
      [kind |-> "noResponse", status |-> Undefined, wellFormed |-> FALSE, data |-> NoData] }

\* What the outbound call of GET /images can do: resolve with a list of
\* images in data.data, resolve with a body that has no such list, or fail.
ListOutcomes ==
    { [kind |-> "resolved", status |-> 200, wellFormed |-> TRUE, data |-> l] :
         l \in SeqsUpTo(HostImages, MaxImages) }
    \cup { [kind |-> "resolved", status |-> 200, wellFormed |-> FALSE, data |-> NoData] }
    \cup HostRejections

\* What the outbound call of GET /image/:imageid can do.
ImageOutcomes ==
    { [kind |-> "resolved", status |-> 200, wellFormed |-> TRUE, data |-> <<img>>] :
         img \in HostImages }
    \cup HostRejections

\* What the outbound call of DELETE /image/:imageid can do.
DeleteOutcomes ==
    { [kind |-> "resolved", status |-> 200, wellFormed |-> TRUE, data |-> NoData],
      [kind |-> "resolved", status |-> 204, wellFormed |-> TRUE, data |-> NoData] }
    \cup HostRejections

NoProxyRequest == [route |-> "none", imageid |-> ""]
NoProxyOutcome ==
    [kind |-> "none", status |-> Undefined, wellFormed |-> FALSE, data |-> NoData]

ImageNotFoundMessage == "Image not found."
FetchImagesErrorMessage == "Failed to fetch images from Imgur."
FetchImageErrorMessage == "Failed to fetch image from Imgur."
DeleteImageErrorMessage == "Failed to delete image from Imgur."

\* The positions at which /(\.[a-z]+)$/ matches: a dot followed by one or
\* more lowercase letters up to the end of the string.
ExtensionMatches(link) ==
    {k \in 1..Len(link) :
        /\ link[k] = "."
        /\ k < Len(link)
        /\ \A j \in (k + 1)..Len(link) : link[j] \in Lower}

\* The size token put after the dot.
ThumbnailLinkAfterDot(link) ==
    IF ExtensionMatches(link) = {} THEN link
    ELSE LET k == CHOOSE i \in ExtensionMatches(link) :
                      \A j \in ExtensionMatches(link) : i <= j
         IN  SubSeq(link, 1, k) \o <<"m">> \o SubSeq(link, k + 1, Len(link))

\* link.replace(/(\.[a-z]+)$/, `${thumbnailSize}$1`): the first match is
\* replaced by "m" followed by the match; no match, no change.
ThumbnailLink(link) ==
    IF ExtensionMatches(link) = {} THEN link
    ELSE LET k == CHOOSE i \in ExtensionMatches(link) :
                      \A j \in ExtensionMatches(link) : i <= j
         IN  SubSeq(link, 1, k - 1) \o <<"m">> \o SubSeq(link, k, Len(link))

\* allImages.data.data.map((image) => ({ ...image, link: ... }))
Thumbnails(allImages) ==
    [i \in 1..Len(allImages) |->
        [allImages[i] EXCEPT !.link = ThumbnailLink(allImages[i].link)]]

\* GET /images with the not-found mapping of the two other routes.
GetImagesResponseWith404(outcome) ==
    IF outcome.kind = "resolved" /\ outcome.wellFormed
    THEN [status |-> 200, body |-> Thumbnails(outcome.data)]
    ELSE IF outcome.kind = "rejected" /\ outcome.status = 404
    THEN [status |-> 404, body |-> ImageNotFoundMessage]
    ELSE [status |-> 500, body |-> FetchImagesErrorMessage]

\* The response of GET /images: the try branch, or the catch branch for a
\* rejected call and for a body without the list (map of undefined throws).
GetImagesResponse(outcome) ==
    IF outcome.kind = "resolved" /\ outcome.wellFormed
    THEN [status |-> 200, body |-> Thumbnails(outcome.data)]
    ELSE [status |-> 500, body |-> FetchImagesErrorMessage]

\* No status singled out: every failure is answered alike.
IsNotFoundNever(outcome) == FALSE

\* error?.response?.status === 404
IsNotFound(outcome) == outcome.kind = "rejected" /\ outcome.status = 404

\* The response of GET /image/:imageid.
GetImageResponse(outcome) ==
    IF outcome.kind = "resolved"
    THEN [status |-> 200, body |-> outcome.data]
    ELSE IF IsNotFound(outcome)
    THEN [status |-> 404, body |-> ImageNotFoundMessage]
    ELSE [status |-> 500, body |-> FetchImageErrorMessage]

\* The response of DELETE /image/:imageid.
DeleteImageResponse(outcome) ==
    IF outcome.kind = "resolved"
    THEN [status |-> 200, body |-> SuccessMessage]
    ELSE IF IsNotFound(outcome)
    THEN [status |-> 404, body |-> ImageNotFoundMessage]
    ELSE [status |-> 500, body |-> DeleteImageErrorMessage]

\* A request arrives at one of the three routes: the handler issues its
\* outbound call and waits for it.
StartProxy(route, imageid) ==
    /\ ppc # "awaiting"
    /\ preq' = [route |-> route, imageid |-> imageid]
    /\ hostCalls' = 1
    /\ proxyOutcome' = NoProxyOutcome
    /\ proxySent' = <<>>
    /\ ppc' = "awaiting"
    /\ UNCHANGED <<req, responses, inflight, calls, outcomes, sent, spc>>
    /\ UNCHANGED clientVars
    /\ UNCHANGED galleryVars

\* router.get("/images")
GetImages == StartProxy("images", "")

\* router.get("/image/:imageid")
GetImage(imageid) == StartProxy("getImage", imageid)

\* router.delete("/image/:imageid")
DeleteImage(imageid) == StartProxy("deleteImage", imageid)

\* The outbound call settles: the rest of the handler writes the response.
ProxySettle(outcome, response) ==
    /\ ppc = "awaiting"
    /\ proxyOutcome' = outcome
    /\ proxySent' = Append(proxySent, response)
    /\ ppc' = "done"
    /\ UNCHANGED <<preq, hostCalls>>
    /\ UNCHANGED <<req, responses, inflight, calls, outcomes, sent, spc>>
    /\ UNCHANGED clientVars
    /\ UNCHANGED galleryVars

GetImagesSettle(outcome) ==
    preq.route = "images" /\ ProxySettle(outcome, GetImagesResponse(outcome))

GetImageSettle(outcome) ==
    preq.route = "getImage" /\ ProxySettle(outcome, GetImageResponse(outcome))

DeleteImageSettle(outcome) ==
    preq.route = "deleteImage" /\ ProxySettle(outcome, DeleteImageResponse(outcome))

ProxyNext ==
    \/ GetImages
    \/ \E id \in ImageIds : GetImage(id)
    \/ \E id \in ImageIds : DeleteImage(id)
    \/ \E o \in ListOutcomes : GetImagesSettle(o)
    \/ \E o \in ImageOutcomes : GetImageSettle(o)
    \/ \E o \in DeleteOutcomes : DeleteImageSettle(o)

(***************************************************************************)
(*                                CLIENT                                   *)
(***************************************************************************)

MAX_FILE_COUNT == 20
MAX_FILE_SIZE == 20 * 1024 * 1024
NEW_NAME_MAX_LENGTH == 20

\* Bound: the pending sets explored hold at most MaxBatch entries, or at
\* least MAX_FILE_COUNT - 1 (the neighbourhood of the count limit); only
\* the former are submitted or edited row by row.
MaxBatch == 2

\* The File objects the user can pick in the file dialog.
SmallFile ==
    [name |-> <<"c", "a", "t", ".", "p", "n", "g">>, size |-> 1024,
     type |-> "image/png"]
LimitFile ==
    [name |-> <<"m", "a", "x", ".", "j", "p", "g">>, size |-> MAX_FILE_SIZE,
     type |-> "image/jpeg"]
LargeFile ==
    [name |-> <<"b", "i", "g", ".", "g", "i", "f">>, size |-> MAX_FILE_SIZE + 1,
     type |-> "image/gif"]

Bulk(n) == [i \in 1..n |-> SmallFile]

\* event.target.files of one change event.
Selections ==
    { <<SmallFile>>, <<LargeFile>>, <<LargeFile, LimitFile>>,
      <<LargeFile, LargeFile, SmallFile>>,
      Bulk(MAX_FILE_COUNT - 1), Bulk(MAX_FILE_COUNT + 1) }

\* What prompt() can return: null on cancel, otherwise the typed text.
Null == <<"null">>
NewNames ==
    { Null, <<>>, <<"a", "-", "b">>,
      [i \in 1..NEW_NAME_MAX_LENGTH |-> "Z"],
      [i \in 1..NEW_NAME_MAX_LENGTH + 1 |-> "Z"] }

\* What fetch can do: resolve with a response of some status, or reject.
FetchOutcomes ==
    { [kind |-> "response", status |-> 200],
      [kind |-> "response", status |-> 400],
      [kind |-> "response", status |-> 500],
      [kind |-> "thrown",   status |-> Undefined] }

\* Response.ok
ResponseOk(outcome) == outcome.status >= 200 /\ outcome.status <= 299

NoAlert == [kind |-> "none"]
CountLimitAlert == [kind |-> "countLimit", max |-> MAX_FILE_COUNT]
TooLargeAlert(invalidFileNames, total) ==
    [kind |-> "tooLarge", names |-> invalidFileNames,
     plural |-> Len(invalidFileNames) > 1,
     remaining |-> total > Len(invalidFileNames)]
SomeFailedAlert == [kind |-> "someFailed"]
EmptyNameAlert == [kind |-> "emptyName"]
InvalidNameAlert == [kind |-> "invalidName", max |-> NEW_NAME_MAX_LENGTH]

Ids(files) == {files[i].id : i \in 1..Len(files)}

\* uuidv4(): an id no live object carries; the model takes the least one.
FreshId(used) ==
    CHOOSE k \in 1..(Cardinality(used) + 1) :
        k \notin used /\ \A j \in 1..(k - 1) : j \in used

\* validFiles.map(file => ({ id: uuidv4(), file, uploaded: false,
\*                           uploadFailed: false }))
RECURSIVE WrapFiles(_, _)
WrapFiles(validFiles, used) ==
    IF validFiles = <<>> THEN <<>>
    ELSE LET id == FreshId(used)
         IN  <<[id |-> id, file |-> Head(validFiles), uploaded |-> FALSE,
                uploadFailed |-> FALSE]>>
             \o WrapFiles(Tail(validFiles), used \cup {id})

\* The size test with >= in place of >.
IsOversizedInclusive(file) == file.size >= MAX_FILE_SIZE

IsOversized(file) == file.size > MAX_FILE_SIZE

ValidFiles(candidates) ==
    SeqFilter(candidates, [i \in 1..Len(candidates) |-> ~IsOversized(candidates[i])])

InvalidFileNames(candidates) ==
    LET big == SeqFilter(candidates,
                         [i \in 1..Len(candidates) |-> IsOversized(candidates[i])])
    IN  [i \in 1..Len(big) |-> big[i].name]

\* The count test made after the oversized candidates are filtered out.
ExceedsCountValidOnly(candidates, files) ==
    Len(ValidFiles(candidates)) + Len(files) > MAX_FILE_COUNT

\* The count test that lets one file too many through.
ExceedsCountOffByOne(candidates, files) ==
    Len(candidates) + Len(files) > MAX_FILE_COUNT + 1

\* event.target.files.length + selectedFiles.length > MAX_FILE_COUNT
ExceedsCount(candidates, files) ==
    Len(candidates) + Len(files) > MAX_FILE_COUNT

\* The selections the model explores (see MaxBatch).
Explored(candidates) ==
    \/ Len(selectedFiles) + Len(ValidFiles(candidates)) <= MaxBatch
    \/ Len(selectedFiles) + Len(candidates) >= MAX_FILE_COUNT - 1

\* handleFileChange, reached through the Select Files button.
HandleFileChange(candidates) ==
    /\ ~isUploading
    /\ pc = "idle"
    /\ Explored(candidates)
    /\ IF ExceedsCount(candidates, selectedFiles)
       THEN /\ alertText' = CountLimitAlert
            /\ UNCHANGED selectedFiles
       ELSE /\ alertText' =
                  IF Len(InvalidFileNames(candidates)) > 0
                  THEN TooLargeAlert(InvalidFileNames(candidates), Len(candidates))
                  ELSE NoAlert
            /\ selectedFiles' =
                  selectedFiles \o WrapFiles(ValidFiles(candidates), Ids(selectedFiles))
    /\ UNCHANGED <<isUploading, uploadProgressCount, batch, reqState, detached,
                   pc, refreshCalls, zeroHits>>
    /\ UNCHANGED serverVars
    /\ UNCHANGED galleryVars

\* A wait that ends with the first settled request.
AllSettledAny(states) ==
    states = <<>> \/ \E j \in 1..Len(states) : states[j] # "inflight"

\* A wait that never ends.
AllSettledNever(states) == FALSE

\* Promise.all over the map callbacks, none of which rejects: it resolves
\* when every one of them has run to its end.
AllSettled(states) == \A j \in 1..Len(states) : states[j] # "inflight"

\* The synchronous part of handleSubmit, reached through the Upload button:
\* the two state updates and one fetch per pending file.
HandleSubmit ==
    /\ ~isUploading
    /\ pc = "idle"
    /\ Len(selectedFiles) <= MaxBatch
    /\ uploadProgressCount' = Len(selectedFiles)
    /\ isUploading' = TRUE
    /\ batch' = selectedFiles
    /\ reqState' = [i \in 1..Len(selectedFiles) |-> "inflight"]
    /\ detached' = {}
    /\ pc' = IF AllSettled(reqState') THEN "joined" ELSE "awaiting"
    /\ alertText' = NoAlert
    /\ refreshCalls' = 0
    /\ zeroHits' = IF Len(selectedFiles) = 0 THEN 1 ELSE 0
    /\ UNCHANGED selectedFiles
    /\ UNCHANGED serverVars
    /\ UNCHANGED galleryVars

\* The flag written to every file of the array instead of to fileData.
MarkUploadedAll(files, id, ok) ==
    [i \in 1..Len(files) |-> [files[i] EXCEPT !.uploaded = ok]]

\* fileData.uploaded = response.ok, on the object the closure holds.
MarkUploaded(files, id, ok) ==
    [i \in 1..Len(files) |->
        IF files[i].id = id THEN [files[i] EXCEPT !.uploaded = ok] ELSE files[i]]

\* The same assignment as seen through the React state: the entry is the
\* mutated object unless a rename has replaced it by a copy.
MarkShared(files, id, ok, copies) ==
    IF id \in copies THEN files ELSE MarkUploaded(files, id, ok)

SettledState(outcome) ==
    IF outcome.kind = "thrown" THEN "thrown"
    ELSE IF ResponseOk(outcome) THEN "ok" ELSE "nonok"

\* The decrement left out of the catch branch.
NextProgressCountNoCatch(prevCount, outcome) ==
    IF outcome.kind = "thrown" THEN prevCount ELSE prevCount - 1

\* setUploadProgressCount((prevCount) => prevCount - 1), in the try branch
\* and in the catch branch alike.
NextProgressCount(prevCount, outcome) == prevCount - 1

\* The request of file i of the batch settles: the rest of its map callback.
FetchSettle(i, outcome) ==
    /\ pc = "awaiting"
    /\ i \in 1..Len(batch)
    /\ reqState[i] = "inflight"
    /\ reqState' = [reqState EXCEPT ![i] = SettledState(outcome)]
    /\ IF outcome.kind = "response"
       THEN /\ batch' = MarkUploaded(batch, batch[i].id, ResponseOk(outcome))
            /\ selectedFiles' =
                  MarkShared(selectedFiles, batch[i].id, ResponseOk(outcome), detached)
       ELSE UNCHANGED <<batch, selectedFiles>>
    /\ uploadProgressCount' = NextProgressCount(uploadProgressCount, outcome)
    /\ zeroHits' = IF uploadProgressCount' = 0 THEN zeroHits + 1 ELSE zeroHits
    /\ pc' = IF AllSettled(reqState') THEN "joined" ELSE "awaiting"
    /\ alertText' = NoAlert
    /\ UNCHANGED <<isUploading, detached, refreshCalls>>
    /\ UNCHANGED serverVars
    /\ UNCHANGED galleryVars

\* Nothing retained: the pending set is emptied after every submission.
FilesToRetainNone(files) == <<>>

\* The filter left out: every file of the batch is retained.
FilesToRetainAll(files) ==
    [i \in 1..Len(files) |-> [files[i] EXCEPT !.uploadFailed = TRUE]]

\* selectedFiles.filter((file) => !file.uploaded), each marked uploadFailed.
FilesToRetain(files) ==
    LET kept == SeqFilter(files, [i \in 1..Len(files) |-> ~files[i].uploaded])
    IN  [i \in 1..Len(kept) |-> [kept[i] EXCEPT !.uploadFailed = TRUE]]

\* The closure's array after filesToRetain.forEach has marked its objects.
AfterMarking(files) ==
    [i \in 1..Len(files) |->
        IF files[i].uploaded THEN files[i]
        ELSE [files[i] EXCEPT !.uploadFailed = TRUE]]

\* every() in place of some().
AnyUploadedEvery(files) == \A i \in 1..Len(files) : files[i].uploaded

\* The alert raised without the test.
AnyUploadFailedAlways(files) == TRUE

\* selectedFiles.some((file) => file.uploaded)
AnyUploaded(files) == \E i \in 1..Len(files) : files[i].uploaded

\* selectedFiles.some((file) => file.uploadFailed)
AnyUploadFailed(files) == \E i \in 1..Len(files) : files[i].uploadFailed

\* Promise.all has resolved: the rest of handleSubmit.  What the call of
\* onUploadSuccess does besides being counted is the parent's part.
Reconcile ==
    /\ pc = "joined"
    /\ refreshCalls' = IF AnyUploaded(batch) THEN refreshCalls + 1 ELSE refreshCalls
    /\ selectedFiles' = FilesToRetain(batch)
    /\ alertText' = IF AnyUploadFailed(AfterMarking(batch))
                    THEN SomeFailedAlert ELSE NoAlert
    /\ isUploading' = FALSE
    /\ pc' = "idle"
    /\ batch' = <<>>
    /\ reqState' = <<>>
    /\ detached' = {}
    /\ UNCHANGED <<uploadProgressCount, zeroHits>>
    /\ UNCHANGED serverVars

\* handleReset, reached through the Reset button.
HandleReset ==
    /\ ~isUploading
    /\ pc = "idle"
    /\ selectedFiles' = <<>>
    /\ alertText' = NoAlert
    /\ UNCHANGED <<isUploading, uploadProgressCount, batch, reqState, detached,
                   pc, refreshCalls, zeroHits>>
    /\ UNCHANGED serverVars
    /\ UNCHANGED galleryVars

\* The filter by the name of the row instead of its id.
WithoutName(files, id) ==
    LET named == {files[i].file.name : i \in {j \in 1..Len(files) : files[j].id = id}}
    IN  SeqFilter(files, [i \in 1..Len(files) |-> files[i].file.name \notin named])

\* prevFiles.filter((file) => file.id !== id)
WithoutId(files, id) ==
    SeqFilter(files, [i \in 1..Len(files) |-> files[i].id # id])

\* The rows whose delete and rename buttons the user clicks (see MaxBatch).
Touchable ==
    IF Len(selectedFiles) <= MaxBatch THEN Ids(selectedFiles) ELSE {}

\* handleDelete, reached through a row's delete button.  The updater runs
\* on the state of the moment, which may hold no entry of that id any more
\* (a second click on a row before it is rendered away).
HandleDelete(id) ==
    /\ pc # "joined"
    /\ selectedFiles' = WithoutId(selectedFiles, id)
    /\ alertText' = NoAlert
    /\ UNCHANGED <<isUploading, uploadProgressCount, batch, reqState, detached,
                   pc, refreshCalls, zeroHits>>
    /\ UNCHANGED serverVars
    /\ UNCHANGED galleryVars

\* The pattern without its upper length.
MatchesNameRegexNoLength(newName) ==
    /\ Len(newName) >= 1
    /\ \A i \in 1..Len(newName) : newName[i] \in Lower \cup Upper \cup Digits

\* The pattern with the length the alert speaks of ("under 20").
MatchesNameRegexUnder(newName) ==
    /\ Len(newName) >= 1
    /\ Len(newName) < 20
    /\ \A i \in 1..Len(newName) : newName[i] \in Lower \cup Upper \cup Digits

\* NEW_NAME_REGEX = /^[a-zA-Z0-9]{1,20}$/
MatchesNameRegex(newName) ==
    /\ Len(newName) >= 1
    /\ Len(newName) <= 20
    /\ \A i \in 1..Len(newName) : newName[i] \in Lower \cup Upper \cup Digits

\* name.split(".").pop()
RECURSIVE FileExtension(_)
FileExtension(name) ==
    IF \A i \in 1..Len(name) : name[i] # "." THEN name
    ELSE FileExtension(Tail(name))

\* new File([file.file], newName + "." + fileExtension, { type })
RenamedFile(file, newName, ext) ==
    [file EXCEPT !.name = newName \o <<".">> \o ext]

\* The map callback without its test of the id: every entry is renamed.
RenameEntryAll(files, id, newName, ext) ==
    [i \in 1..Len(files) |->
        [files[i] EXCEPT !.file = RenamedFile(files[i].file, newName, ext)]]

\* prevFiles.map((file) => file.id === id ? { ...file, file: newFile } : file)
RenameEntry(files, id, newName, ext) ==
    [i \in 1..Len(files) |->
        IF files[i].id = id
        THEN [files[i] EXCEPT !.file = RenamedFile(files[i].file, newName, ext)]
        ELSE files[i]]

EntryOf(files, id) == files[CHOOSE i \in 1..Len(files) : files[i].id = id]

\* handleRename, reached through a row's rename button.
HandleRename(id, newName) ==
    /\ pc # "joined"
    /\ id \in Touchable
    /\ IF newName = Null \/ newName = <<>>
       THEN /\ alertText' = EmptyNameAlert
            /\ UNCHANGED <<selectedFiles, detached>>
       ELSE IF ~MatchesNameRegex(newName)
       THEN /\ alertText' = InvalidNameAlert
            /\ UNCHANGED <<selectedFiles, detached>>
       ELSE /\ alertText' = NoAlert
            /\ selectedFiles' =
                  RenameEntry(selectedFiles, id, newName,
                              FileExtension(EntryOf(selectedFiles, id).file.name))
            /\ detached' = IF pc = "awaiting" THEN detached \cup {id} ELSE detached
    /\ UNCHANGED <<isUploading, uploadProgressCount, batch, reqState, pc,
                   refreshCalls, zeroHits>>
    /\ UNCHANGED serverVars
    /\ UNCHANGED galleryVars

\* The whole workflow, with every kind of selection and of new name; the
\* rows are edited while no upload is in flight.
ClientNext ==
    \/ \E c \in Selections : HandleFileChange(c)
    \/ HandleSubmit
    \/ \E i \in 1..Len(batch), o \in FetchOutcomes : FetchSettle(i, o)
    \/ Reconcile /\ UNCHANGED galleryVars
    \/ HandleReset
    \/ \E id \in Touchable : pc = "idle" /\ HandleDelete(id)
    \/ \E id \in Touchable, n \in NewNames : pc = "idle" /\ HandleRename(id, n)

\* The selections and new names of the upload workflow below.
UploadSelections == { <<LimitFile>>, <<LargeFile, LimitFile>> }
UploadNewNames == { [i \in 1..NEW_NAME_MAX_LENGTH |-> "Z"] }

\* The whole workflow, with the rows edited while the requests of a
\* submission are in flight.
UploadNext ==
    \/ \E c \in UploadSelections : HandleFileChange(c)
    \/ HandleSubmit
    \/ \E i \in 1..Len(batch), o \in FetchOutcomes : FetchSettle(i, o)
    \/ Reconcile /\ UNCHANGED galleryVars
    \/ HandleReset
    \/ \E id \in Touchable : pc = "awaiting" /\ HandleDelete(id)
    \/ \E id \in Touchable, n \in UploadNewNames :
          pc = "awaiting" /\ HandleRename(id, n)

\* A file whose name holds two dots.
DottedFile ==
    [name |-> <<"v", ".", "2", ".", "p", "n", "g">>, size |-> 2048,
     type |-> "image/png"]

\* The selections and new names of the editing workflow below.
EditSelections == { <<SmallFile>>, <<DottedFile>>, <<SmallFile, SmallFile>> }
EditNewNames ==
    { Null, <<>>, <<"a", "1">>, <<"a", "-", "b">>, <<"a", ".", "b">>,
      [i \in 1..NEW_NAME_MAX_LENGTH |-> "Z"],
      [i \in 1..NEW_NAME_MAX_LENGTH + 1 |-> "Z"] }

\* The ids handleDelete is called with: those of the rows, and ids that no
\* row carries (any more).
RowIds == 1..(MaxBatch + 1)

\* Selection and editing of the pending set, no submission.
EditNext ==
    \/ \E c \in EditSelections : HandleFileChange(c)
    \/ HandleReset
    \/ \E id \in RowIds : pc = "idle" /\ HandleDelete(id)
    \/ \E id \in Touchable, n \in EditNewNames : pc = "idle" /\ HandleRename(id, n)

(***************************************************************************)
(*                          APP AND IMAGE GRID                             *)
(***************************************************************************)

\* Bound: the largest number of list requests pending at a time.
MaxListFetches == 2

\* The ids of the images of the account.
GalleryIds == {"img1", "img2"}

\* The account's images when the page is loaded, in the host's order.
InitialHostImages == <<"img1", "img2">>

NoDelete == "none"
Unserved == <<"unserved">>

NotFoundAlert == [kind |-> "imageNotFound"]
DeleteFailedAlert == [kind |-> "deleteFailed"]

\* App.handleUploadSuccess, setRecompute((prev) => !prev), and the effect
\* of ImageGrid that the following render runs: if (recompute) fetchImages().
\* React runs the effects of a render before it handles another update.
HandleUploadSuccess ==
    /\ recompute \/ listFetches < MaxListFetches
    /\ recompute' = ~recompute
    /\ listFetches' = IF recompute' THEN listFetches + 1 ELSE listFetches
    /\ listReplies' = IF recompute' THEN Append(listReplies, Unserved)
                      ELSE listReplies
    /\ UNCHANGED <<isError, images, isDeleting, deleting, gridAlert, hostImages>>

\* The host answers a pending list request with the account's images of
\* the moment; the response is on its way to fetchImages from then on.
ServeList(i) ==
    /\ i \in 1..Len(listReplies)
    /\ listReplies[i] = Unserved
    /\ listReplies' = [listReplies EXCEPT ![i] = hostImages]
    /\ UNCHANGED <<recompute, listFetches, isError, images, isDeleting,
                   deleting, gridAlert, hostImages>>
    /\ UNCHANGED clientVars
    /\ UNCHANGED serverVars

\* s without its i-th element.
RemoveAt(s, i) == SubSeq(s, 1, i - 1) \o SubSeq(s, i + 1, Len(s))

\* A filter that keeps every image.
WithoutImageNone(list, imageId) == list

\* prevImages.filter((image) => image.id !== imageId)
WithoutImage(list, imageId) ==
    SeqFilter(list, [i \in 1..Len(list) |-> list[i] # imageId])

\* A list request of fetchImages settles.  An ok response ends with
\* setRecompute(false), after which the effect finds nothing to fetch; a
\* non-ok response or a thrown error sets isError and leaves recompute.
ListFetchSettle(i, outcome) ==
    /\ i \in 1..Len(listReplies)
    /\ listFetches' = listFetches - 1
    /\ listReplies' = RemoveAt(listReplies, i)
    /\ IF outcome.kind = "response" /\ ResponseOk(outcome)
       THEN /\ listReplies[i] # Unserved
            /\ images' = listReplies[i]
            /\ recompute' = FALSE
            /\ UNCHANGED isError
       ELSE /\ isError' = TRUE
            /\ UNCHANGED <<recompute, images>>
    /\ UNCHANGED <<isDeleting, deleting, gridAlert, hostImages>>
    /\ UNCHANGED clientVars
    /\ UNCHANGED serverVars

\* What the DELETE request of the grid can do: FetchOutcomes and a response
\* of status 404.
DeleteFetchOutcomes == FetchOutcomes \cup { [kind |-> "response", status |-> 404] }

\* ImageGrid.handleDelete up to its await, reached through the Delete
\* button of a displayed image: the list is rendered when isError is false,
\* and its buttons are disabled={isDeleting}.
ImageGridHandleDelete(imageId) ==
    /\ ~isError
    /\ ~isDeleting
    /\ \E i \in 1..Len(images) : images[i] = imageId
    /\ isDeleting' = TRUE
    /\ deleting' = imageId
    /\ gridAlert' = NoAlert
    /\ UNCHANGED <<recompute, listFetches, isError, images, listReplies,
                   hostImages>>
    /\ UNCHANGED clientVars
    /\ UNCHANGED serverVars

\* The DELETE request settles: the rest of handleDelete.  An ok response
\* means that the host has deleted the image.
DeleteSettle(outcome) ==
    /\ deleting # NoDelete
    /\ IF outcome.kind = "response" /\ ResponseOk(outcome)
       THEN /\ images' = WithoutImage(images, deleting)
            /\ hostImages' = WithoutImage(hostImages, deleting)
            /\ gridAlert' = NoAlert
       ELSE /\ gridAlert' = IF outcome.kind = "response" /\ outcome.status = 404
                           THEN NotFoundAlert ELSE DeleteFailedAlert
            /\ UNCHANGED <<images, hostImages>>
    /\ isDeleting' = FALSE
    /\ deleting' = NoDelete
    /\ UNCHANGED <<recompute, listFetches, isError, listReplies>>
    /\ UNCHANGED clientVars
    /\ UNCHANGED serverVars

\* An upload of UploadConsole has succeeded: the parent's callback runs.
UploadSucceeded ==
    /\ HandleUploadSuccess
    /\ UNCHANGED clientVars
    /\ UNCHANGED serverVars

\* ImageGrid under App, the uploads of the console being the environment.
GalleryNext ==
    \/ UploadSucceeded
    \/ \E i \in 1..Len(listReplies) : ServeList(i)
    \/ \E i \in 1..Len(listReplies), o \in FetchOutcomes : ListFetchSettle(i, o)
    \/ \E imageId \in GalleryIds : ImageGridHandleDelete(imageId)
    \/ \E o \in DeleteFetchOutcomes : DeleteSettle(o)

\* The selections of the application workflow below.
AppSelections == { <<SmallFile>> }

\* UploadConsole under App, its onUploadSuccess being handleUploadSuccess,
\* next to ImageGrid.
AppNext ==
    \/ \E c \in AppSelections : HandleFileChange(c)
    \/ HandleSubmit
    \/ \E i \in 1..Len(batch), o \in FetchOutcomes : FetchSettle(i, o)
    \/ Reconcile /\ IF refreshCalls' > refreshCalls
                    THEN HandleUploadSuccess
                    ELSE UNCHANGED galleryVars
    \/ \E i \in 1..Len(listReplies) : ServeList(i)
    \/ \E i \in 1..Len(listReplies), o \in FetchOutcomes : ListFetchSettle(i, o)

(***************************************************************************)
(*                            SPECIFICATIONS                               *)
(***************************************************************************)

Init ==
    /\ req = NoRequest
    /\ responses = <<>>
    /\ inflight = {}
    /\ calls = <<>>
    /\ outcomes = <<>>
    /\ sent = <<>>
    /\ spc = "idle"
    /\ preq = NoProxyRequest
    /\ hostCalls = 0
    /\ proxyOutcome = NoProxyOutcome
    /\ proxySent = <<>>
    /\ ppc = "idle"
    /\ selectedFiles = <<>>
    /\ isUploading = FALSE
    /\ uploadProgressCount = 0
    /\ batch = <<>>
    /\ reqState = <<>>
    /\ detached = {}
    /\ pc = "idle"
    /\ alertText = NoAlert
    /\ refreshCalls = 0
    /\ zeroHits = 0
    \* App mounts with recompute = true, and the effect of ImageGrid has
    \* started the first list request.
    /\ recompute = TRUE
    /\ listFetches = 1
    /\ isError = FALSE
    /\ images = <<>>
    /\ isDeleting = FALSE
    /\ deleting = NoDelete
    /\ gridAlert = NoAlert
    /\ listReplies = <<Unserved>>
    /\ hostImages = InitialHostImages

ServerSpec == Init /\ [][ServerNext]_vars

ClientSpec == Init /\ [][ClientNext]_vars

UploadSpec == Init /\ [][UploadNext]_vars

\* Every fetch settles in the end (the hypothesis under which the workflow
\* is expected to finish), and the continuation of a resolved Promise.all
\* is run by the microtask queue.
UploadLive ==
    /\ UploadSpec
    /\ WF_vars(\E i \in 1..Len(batch), o \in FetchOutcomes : FetchSettle(i, o))
    /\ WF_vars(Reconcile /\ UNCHANGED galleryVars)

ProxySpec == Init /\ [][ProxyNext]_vars

EditSpec == Init /\ [][EditNext]_vars

AppSpec == Init /\ [][AppNext]_vars

GallerySpec == Init /\ [][GalleryNext]_vars

(***************************************************************************)
(*                         PROPERTIES: SERVER                              *)
(***************************************************************************)

\* The request passed the guard and the aggregate response has been sent.
Answered == spc = "done" /\ req.kind = "array" /\ Len(req.files) > 0

AllSucceeded == \A i \in 1..Len(responses) : responses[i].success
SomeStatus500 == \E i \in 1..Len(responses) : responses[i].status = 500

\* C1: once all per-file outcomes are known the server responds 200
\* "success" if and only if every outcome succeeded; otherwise 500 if at
\* least one outcome carries status 500; otherwise 400 with the
\* check-size/type message.
C1_Aggregation ==
    Answered =>
        /\ Len(sent) = 1
        /\ (sent[1].status = 200) <=> AllSucceeded
        /\ AllSucceeded => sent[1].body = "success"
        /\ (~AllSucceeded /\ SomeStatus500) => sent[1].status = 500
        /\ (~AllSucceeded /\ ~SomeStatus500) =>
              /\ sent[1].status = 400
              /\ sent[1].body = CheckFilesMessage

\* A batch answered 400 in which one file succeeded, one had a disallowed
\* type and none carries status 500.
C1_Witness ==
    /\ Answered
    /\ sent[1].status = 400
    /\ \E i \in 1..Len(responses) : responses[i].success
    /\ \E i \in 1..Len(responses) : responses[i].typeError
    /\ \E i \in 1..Len(responses) :
          ~responses[i].typeError /\ responses[i].status = 400

C5_AllowList ==
    {"image/jpeg", "image/jpg", "image/gif", "image/png", "image/apng",
     "image/tiff"}

\* C5: for every accepted batch there is exactly one outcome record per
\* submitted file, and the number of outbound calls made for a file is one
\* if its media type is in the allow-list and zero otherwise (then the
\* outcome is failed with typeError = true), whatever happened to the
\* other files of the batch.
C5_FanOut ==
    (spc \in {"fanout", "done"} /\ req.kind = "array" /\ Len(req.files) > 0) =>
        /\ Len(responses) = Len(req.files)
        /\ Len(calls) = Len(req.files)
        /\ \A i \in 1..Len(req.files) :
              /\ responses[i].file = req.files[i].originalname
              /\ IF req.files[i].mimetype \in C5_AllowList
                 THEN calls[i] = 1 /\ ~responses[i].typeError
                 ELSE /\ calls[i] = 0
                      /\ responses[i].typeError
                      /\ ~responses[i].success
                      /\ outcomes[i] = NoOutcome

\* An answered batch of three: one file of a disallowed type, one rejected
\* by the host, one that succeeded.
C5_Witness ==
    /\ Answered
    /\ \E i, j, k \in 1..Len(responses) :
          /\ calls[i] = 0 /\ responses[i].typeError
          /\ calls[j] = 1 /\ outcomes[j].kind = "rejected"
          /\ calls[k] = 1 /\ responses[k].success

\* C6 as stated: a call that returns a success status gives a success
\* outcome with that status; a rejection carrying a status gives a failed
\* outcome with that status; a rejection without a response gives a failed
\* outcome with status 500.
C6_AsStated ==
    \A i \in 1..Len(outcomes) :
        /\ outcomes[i].kind = "resolved" =>
              responses[i].success /\ responses[i].status = outcomes[i].status
        /\ outcomes[i].kind = "rejected" =>
              ~responses[i].success /\ responses[i].status = outcomes[i].status
        /\ outcomes[i].kind = "noResponse" =>
              ~responses[i].success /\ responses[i].status = 500

\* C6 amended: the outcome is success exactly when the call returns status
\* 200; a call that returns any other success status gives a failed
\* outcome with that status recorded; rejections as stated.
C6_Classification ==
    \A i \in 1..Len(outcomes) :
        /\ outcomes[i].kind = "resolved" =>
              /\ responses[i].success <=> (outcomes[i].status = 200)
              /\ responses[i].status = outcomes[i].status
        /\ outcomes[i].kind = "rejected" =>
              ~responses[i].success /\ responses[i].status = outcomes[i].status
        /\ outcomes[i].kind = "noResponse" =>
              ~responses[i].success /\ responses[i].status = 500

\* One batch in which a call resolved with 200, one resolved with 201, and
\* one was rejected without a response.
C6_Witness ==
    \E i, j, k \in 1..Len(outcomes) :
        /\ outcomes[i] = [kind |-> "resolved", status |-> 200]
        /\ outcomes[j] = [kind |-> "resolved", status |-> 201]
        /\ outcomes[k].kind = "noResponse"

\* The request carried no files, or a files field that is no array.
NothingAttached == req.kind \in {"undefined", "object"} \/ Len(req.files) = 0

\* C7: a request with no files attached (or a malformed files field) gets
\* exactly one response, with status 400, and no outbound call is made.
C7_NoFiles ==
    (spc # "idle" /\ NothingAttached) =>
        /\ spc = "done"
        /\ Len(sent) = 1
        /\ sent[1].status = 400
        /\ calls = <<>>
        /\ inflight = {}

\* A request whose files field is no array has been answered.
C7_Witness ==
    spc = "done" /\ req.kind = "object" /\ Len(sent) = 1

\* C8: a request with no files attached is answered 400 with the body
\* "No files attached.".
C8_NoFilesBody ==
    (spc = "done" /\ NothingAttached) =>
        sent[1] = [status |-> 400, body |-> "No files attached."]

(***************************************************************************)
(*                         PROPERTIES: CLIENT                              *)
(***************************************************************************)

\* The step in which handleSubmit resumes after Promise.all.
ReconcileStep == pc = "joined" /\ pc' = "idle"

\* The indexes of the batch whose request did not return an ok response.
NotOkIndexes ==
    SelectSeq([i \in 1..Len(batch) |-> i], LAMBDA i : reqState[i] # "ok")

\* C2: after every request of a submission has settled, the pending set is
\* replaced by exactly the submitted files whose own request did not return
\* an ok response, in their original order; if every request returned ok
\* the pending set is left empty.
C2_Reconciliation ==
    [][ReconcileStep =>
          /\ Len(selectedFiles') = Len(NotOkIndexes)
          /\ \A j \in 1..Len(NotOkIndexes) :
                /\ selectedFiles'[j].id = batch[NotOkIndexes[j]].id
                /\ selectedFiles'[j].file = batch[NotOkIndexes[j]].file
          /\ (\A i \in 1..Len(batch) : reqState[i] = "ok") => selectedFiles' = <<>>
       ]_vars

\* Just after the reconciliation of a submission of two files of which one
\* succeeded and one failed: one file is left.
C2_Witness ==
    /\ pc = "idle"
    /\ alertText = SomeFailedAlert
    /\ refreshCalls = 1
    /\ Len(selectedFiles) = 1
    /\ selectedFiles[1].uploadFailed

\* The requests of the submission that have settled so far.
SettledRequests == {i \in 1..Len(reqState) : reqState[i] # "inflight"}

\* C3: uploadProgressCount is the number of pending files at submit, is
\* lowered by one each time one request settles (ok, non-ok or thrown), is
\* never negative, and becomes 0 exactly once per submission.
C3_ProgressAccounting ==
    /\ uploadProgressCount >= 0
    /\ pc # "idle" => uploadProgressCount = Len(batch) - Cardinality(SettledRequests)
    /\ pc = "awaiting" => uploadProgressCount > 0 /\ zeroHits = 0
    /\ pc = "joined" => uploadProgressCount = 0 /\ zeroHits = 1
    /\ pc = "idle" => uploadProgressCount = 0 /\ zeroHits <= 1

\* All requests of a submission of two files have settled, one by a thrown
\* error and one by an ok response.
C3_Witness ==
    /\ pc = "joined"
    /\ Len(batch) = 2
    /\ \E i \in 1..Len(reqState) : reqState[i] = "thrown"
    /\ \E i \in 1..Len(reqState) : reqState[i] = "ok"
    /\ uploadProgressCount = 0
    /\ zeroHits = 1

\* C4: a thrown network error on one file's request is caught at that
\* request: handleSubmit goes on, the other requests are untouched, every
\* file of the submission is requested, and at reconciliation the file is
\* retained with uploaded = false and uploadFailed = true exactly as after
\* a non-ok response, while every file whose request returned ok is marked
\* uploaded and dropped.
C4_FailureIsolation ==
    [][/\ (pc = "idle" /\ pc' # "idle") =>
             /\ Len(reqState') = Len(selectedFiles)
             /\ \A i \in 1..Len(reqState') : reqState'[i] = "inflight"
       /\ \A i \in 1..Len(reqState) :
             (pc = "awaiting" /\ reqState[i] = "inflight" /\ reqState'[i] = "thrown") =>
                /\ pc' \in {"awaiting", "joined"}
                /\ batch' = batch
                /\ \A j \in 1..Len(reqState) : j # i => reqState'[j] = reqState[j]
       /\ ReconcileStep =>
             \A i \in 1..Len(batch) :
                IF reqState[i] = "ok"
                THEN batch[i].uploaded /\ batch[i].id \notin Ids(selectedFiles')
                ELSE \E j \in 1..Len(selectedFiles') :
                        /\ selectedFiles'[j].id = batch[i].id
                        /\ ~selectedFiles'[j].uploaded
                        /\ selectedFiles'[j].uploadFailed
      ]_vars

\* A submission of two files has settled: the first request returned ok,
\* the second threw.
C4_Witness ==
    /\ pc = "joined"
    /\ reqState = <<"ok", "thrown">>
    /\ batch[1].uploaded
    /\ ~batch[2].uploaded

\* C9: when M files are pending and N candidates are selected with
\* N + M > MAX_FILE_COUNT, handleFileChange adds none of them, alerts the
\* count-limit message and leaves the pending set as it was; N is the full
\* number of candidates, oversized ones included.
C9_CountLimit ==
    [][\A c \in Selections :
          (HandleFileChange(c) /\ Len(c) + Len(selectedFiles) > MAX_FILE_COUNT) =>
             /\ selectedFiles' = selectedFiles
             /\ alertText' = CountLimitAlert
      ]_vars

\* A selection was rejected for its count while 19 files were pending.
C9_Witness ==
    /\ alertText = CountLimitAlert
    /\ Len(selectedFiles) = MAX_FILE_COUNT - 1

\* C10: when a selection passes the count check, the candidates of size
\* greater than MAX_FILE_SIZE are left out and the candidates of size at
\* most MAX_FILE_SIZE are appended in selection order after the existing
\* entries, with uploaded = false and uploadFailed = false; the existing
\* entries are unchanged.
C10_SizeLimit ==
    [][\A c \in Selections :
          (HandleFileChange(c) /\ Len(c) + Len(selectedFiles) <= MAX_FILE_COUNT) =>
             LET fits == SelectSeq(c, LAMBDA f : f.size <= MAX_FILE_SIZE)
                 M == Len(selectedFiles)
             IN  /\ Len(selectedFiles') = M + Len(fits)
                 /\ SubSeq(selectedFiles', 1, M) = selectedFiles
                 /\ \A j \in 1..Len(fits) :
                       /\ selectedFiles'[M + j].file = fits[j]
                       /\ ~selectedFiles'[M + j].uploaded
                       /\ ~selectedFiles'[M + j].uploadFailed
      ]_vars

\* A selection of one oversized file and one file of exactly MAX_FILE_SIZE
\* was made while a file was pending: the second one was appended.
C10_Witness ==
    /\ alertText = TooLargeAlert(<<LargeFile.name>>, 2)
    /\ Len(selectedFiles) = 2
    /\ selectedFiles[2].file = LimitFile
    /\ ~selectedFiles[2].uploaded
    /\ ~selectedFiles[2].uploadFailed

\* The characters a new name may consist of.
AsciiAlnum == Lower \cup Upper \cup Digits

\* prompt() was cancelled or left empty.
NothingEntered(n) == n = Null \/ n = <<>>

\* The text entered holds a character that is no ASCII letter or digit, or
\* is longer than NEW_NAME_MAX_LENGTH.
FailsNameCheck(n) ==
    /\ ~NothingEntered(n)
    /\ \/ \E i \in 1..Len(n) : n[i] \notin AsciiAlnum
       \/ Len(n) > NEW_NAME_MAX_LENGTH

\* C11: a rename with an empty or cancelled new name, or with a new name
\* that holds a non-alphanumeric character or more than NEW_NAME_MAX_LENGTH
\* characters, alerts the message of that kind of violation and leaves the
\* whole pending set (names, entries, order) unchanged.
C11_RenameRejection ==
    [][\A id \in Touchable, n \in EditNewNames :
          HandleRename(id, n) =>
             /\ NothingEntered(n) =>
                   (selectedFiles' = selectedFiles /\ alertText' = EmptyNameAlert)
             /\ FailsNameCheck(n) =>
                   (selectedFiles' = selectedFiles /\ alertText' = InvalidNameAlert)
      ]_vars

\* A rename of one of two pending files was refused for the name entered;
\* both files are pending under their original names.
C11_Witness ==
    /\ alertText = InvalidNameAlert
    /\ Len(selectedFiles) = 2
    /\ \A i \in 1..2 : selectedFiles[i].file = SmallFile

\* An entry with its file name put aside.
Unnamed(entry) == [entry EXCEPT !.file.name = <<>>]

\* C12: a successful rename of file A changes only A's display name: every
\* other pending file keeps its name, id, flags and position, and A keeps
\* its id, its uploaded and uploadFailed flags and its position.  (A step
\* of handleRename changes the pending set and leaves pc as it is; the
\* other steps are passed over without a look at the rows.)
C12_RenameIsolation ==
    [][\A id \in IF selectedFiles' # selectedFiles /\ pc' = pc
                  THEN Touchable ELSE {},
          n \in NewNames :
          (HandleRename(id, n) /\ selectedFiles' # selectedFiles) =>
             /\ Len(selectedFiles') = Len(selectedFiles)
             /\ \A i \in 1..Len(selectedFiles) :
                   IF selectedFiles[i].id = id
                   THEN /\ selectedFiles'[i].id = id
                        /\ selectedFiles'[i].uploaded = selectedFiles[i].uploaded
                        /\ selectedFiles'[i].uploadFailed = selectedFiles[i].uploadFailed
                        /\ Unnamed(selectedFiles'[i]) = Unnamed(selectedFiles[i])
                   ELSE selectedFiles'[i] = selectedFiles[i]
      ]_vars

\* Two files were retained after a failed submission and the second one
\* was renamed since: it still is second and marked as failed, and the
\* first one is as it was.
C12_Witness ==
    /\ pc = "idle"
    /\ Len(selectedFiles) = 2
    /\ selectedFiles[1].file = SmallFile
    /\ selectedFiles[1].uploadFailed
    /\ selectedFiles[2].file.name # SmallFile.name
    /\ selectedFiles[2].file.size = SmallFile.size
    /\ selectedFiles[2].uploadFailed
    /\ alertText = NoAlert

\* The part of a file name after its last dot.
AfterLastDot(name) ==
    LET dots == {i \in 1..Len(name) : name[i] = "."}
        last == CHOOSE i \in dots : \A j \in dots : j <= i
    IN  SubSeq(name, last + 1, Len(name))

C14_DeleteExactlyOne ==
    [][\A id \in RowIds :
          HandleDelete(id) =>
             LET hits == {i \in 1..Len(selectedFiles) : selectedFiles[i].id = id}
                 n == Len(selectedFiles)
             IN  IF hits = {}
                 THEN selectedFiles' = selectedFiles
                 ELSE \E k \in hits :
                         /\ hits = {k}
                         /\ selectedFiles' =
                               SubSeq(selectedFiles, 1, k - 1)
                                  \o SubSeq(selectedFiles, k + 1, n)
      ]_vars

\* The same file was selected twice and the first of the two rows deleted:
\* the second row, with its own id, is left.
C14_Witness ==
    /\ Len(selectedFiles) = 1
    /\ selectedFiles[1].id = 2
    /\ selectedFiles[1].file = SmallFile

\* C15: submitting with an empty pending set issues no upload request,
\* does not call onUploadSuccess and does not raise the failure alert; the
\* pending set stays empty.
C15_EmptySubmit ==
    [][/\ (HandleSubmit /\ selectedFiles = <<>>) =>
             /\ reqState' = <<>>
             /\ refreshCalls' = 0
             /\ alertText' # SomeFailedAlert
             /\ selectedFiles' = <<>>
       /\ (ReconcileStep /\ batch = <<>>) =>
             /\ reqState' = <<>>
             /\ refreshCalls' = refreshCalls
             /\ alertText' # SomeFailedAlert
             /\ selectedFiles' = <<>>
      ]_vars

\* The Upload button was clicked with nothing pending: handleSubmit is at
\* the end of its wait for no request at all.
C15_Witness ==
    /\ pc = "joined"
    /\ batch = <<>>
    /\ reqState = <<>>
    /\ selectedFiles = <<>>
    /\ refreshCalls = 0

\* At least one request of the submission has not settled.
Unsettled == \E j \in 1..Len(reqState) : reqState[j] = "inflight"

\* C16: from the start of a non-empty submission until every one of its
\* requests has settled the component is uploading (isUploading = true),
\* the select, reset and submit controls are disabled (no step is one of
\* their handlers), and neither the return to idle nor the reconciliation
\* of the pending set takes place, even if all requests but one have
\* settled.
C16_UploadingPhase ==
    [][/\ (HandleSubmit /\ selectedFiles # <<>>) => (isUploading' /\ pc' = "awaiting")
       /\ Unsettled =>
             /\ isUploading /\ isUploading'
             /\ pc = "awaiting" /\ pc' # "idle"
             /\ ~ReconcileStep
             /\ Len(batch') = Len(batch)
             /\ ~HandleSubmit
             /\ ~HandleReset
             /\ \A c \in UploadSelections : ~HandleFileChange(c)
      ]_vars

\* Of the two requests of a submission the first has returned ok and the
\* second is still pending: the component is uploading.
C16_Witness ==
    /\ reqState = <<"ok", "inflight">>
    /\ pc = "awaiting"
    /\ isUploading
    /\ uploadProgressCount = 1

\* C17: if every request of a submission settles in the end, in any order
\* and with any mix of ok, non-ok and thrown outcomes, the component
\* returns to idle with isUploading = false, which enables the select,
\* reset and submit controls again.
C17_UploadingEnds == isUploading ~> (~isUploading /\ pc = "idle")

\* A submission of two files has ended with both of them failed and
\* retained: the component is idle again.
C17_Witness ==
    /\ pc = "idle"
    /\ ~isUploading
    /\ alertText = SomeFailedAlert
    /\ refreshCalls = 0
    /\ Len(selectedFiles) = 2
    /\ \A i \in 1..2 : selectedFiles[i].uploadFailed

\* At least one request of the submission returned an ok response.
SomeRequestOk == \E i \in 1..Len(reqState) : reqState[i] = "ok"

\* C18: at the end of a submission onUploadSuccess is called exactly once
\* if at least one file of the submission succeeded and not at all if none
\* did; it is not called before all requests have settled, nor once per
\* file.
C18_RefreshNotification ==
    [][/\ ReconcileStep =>
             refreshCalls' = refreshCalls + (IF SomeRequestOk THEN 1 ELSE 0)
       /\ ~ReconcileStep => (refreshCalls' = refreshCalls \/ refreshCalls' = 0)
       /\ pc' # "idle" => refreshCalls' = 0
       /\ refreshCalls' <= 1
      ]_vars

\* A submission whose files all succeeded has ended: one call of
\* onUploadSuccess was made and nothing is pending.
C18_Witness ==
    /\ pc = "idle"
    /\ refreshCalls = 1
    /\ selectedFiles = <<>>
    /\ alertText = NoAlert
    /\ uploadProgressCount = 0
    /\ zeroHits = 1

(***************************************************************************)
(*                     PROPERTIES: APP AND IMAGE GRID                      *)
(***************************************************************************)

\* The end of a submission in which onUploadSuccess is called.
SuccessReported == ReconcileStep /\ refreshCalls' > refreshCalls

\* C19: whenever onUploadSuccess is invoked the recompute flag of App is
\* true afterwards and ImageGrid starts a list request then, whatever the
\* gallery is at: idle with recompute = false, a list request pending with
\* recompute = true, or the previous list request failed.
C19_RefreshOnSuccess ==
    [][SuccessReported => (recompute' /\ listFetches' = listFetches + 1)]_vars

(***************************************************************************)
(*                     PROPERTIES: CLIENT (continued)                      *)
(***************************************************************************)

\* C20: uploaded and uploadFailed are both false for a file until its
\* first submission, and once a submission has completed, a retry of files
\* that failed before included, they are not both true for any file of
\* that submission.
C20_FlagExclusion ==
    [][/\ \A c \in UploadSelections :
             HandleFileChange(c) =>
                \A j \in (Len(selectedFiles) + 1)..Len(selectedFiles') :
                   ~selectedFiles'[j].uploaded /\ ~selectedFiles'[j].uploadFailed
       /\ ReconcileStep =>
             \A i \in 1..Len(batch) :
                ~(AfterMarking(batch)[i].uploaded /\ AfterMarking(batch)[i].uploadFailed)
      ]_vars

\* The ids that are in the pending set before the step and not after it.
LeavingIds == Ids(selectedFiles) \ Ids(selectedFiles')

\* The ids of the batch whose own request returned an ok response.
OkIds == {batch[i].id : i \in {j \in 1..Len(batch) : reqState[j] = "ok"}}

\* The ids of the batch whose own request failed (non-ok or thrown).
FailedIds == {batch[i].id : i \in {j \in 1..Len(batch) : reqState[j] \in {"nonok", "thrown"}}}

\* C25: whatever the sequence of select, rename, delete, reset and submit
\* operations, a file leaves the pending set only by a delete of its id, by
\* reset, or because its own upload request returned ok; a file whose
\* upload failed is in the pending set after the submission and can be
\* submitted again.
C25_NoSilentDrops ==
    [][/\ \A id \in LeavingIds :
             \/ HandleDelete(id)
             \/ HandleReset
             \/ (ReconcileStep /\ id \in OkIds)
       /\ ReconcileStep =>
             /\ FailedIds \subseteq Ids(selectedFiles')
             /\ ~isUploading' /\ pc' = "idle"
      ]_vars

\* A submission of two files has ended: the one whose request returned ok
\* has left the pending set, the one whose request failed is alone in it.
C25_Witness ==
    /\ pc = "idle"
    /\ refreshCalls = 1
    /\ alertText = SomeFailedAlert
    /\ Len(selectedFiles) = 1
    /\ selectedFiles[1].id = 2
    /\ selectedFiles[1].uploadFailed
    /\ ~selectedFiles[1].uploaded

\* C26: in every reachable state of the upload workflow the pending set
\* holds at most MAX_FILE_COUNT entries and the ids of its entries are
\* pairwise distinct.
C26_PendingSetBound ==
    /\ Len(selectedFiles) <= MAX_FILE_COUNT
    /\ \A i, j \in 1..Len(selectedFiles) :
          i # j => selectedFiles[i].id # selectedFiles[j].id

\* MAX_FILE_COUNT files are pending, the last of them selected on its own.
C26_Witness ==
    /\ Len(selectedFiles) = MAX_FILE_COUNT
    /\ selectedFiles[MAX_FILE_COUNT].id = MAX_FILE_COUNT
    /\ alertText = NoAlert

\* C27: the delete and rename buttons of the rows stay enabled while
\* uploading, and a row deleted or renamed between submit and the moment
\* all requests have settled stays so through reconciliation: a deleted
\* file is not back in the pending set, and a renamed file that is retained
\* carries its new name.
C27_EditsSurvive ==
    [][/\ (pc = "awaiting" /\ Touchable # {}) =>
             \A id \in Touchable :
                /\ ENABLED HandleDelete(id)
                /\ \E n \in UploadNewNames : ENABLED HandleRename(id, n)
       /\ ReconcileStep =>
             \A id \in Ids(batch) :
                /\ id \notin Ids(selectedFiles) => id \notin Ids(selectedFiles')
                /\ id \in Ids(selectedFiles) \cap Ids(selectedFiles') =>
                      EntryOf(selectedFiles', id).file.name =
                         EntryOf(selectedFiles, id).file.name
      ]_vars

\* C28: the "Some files failed to upload" alert is raised at the end of a
\* submission if and only if at least one file of the submission failed in
\* that submission; a resubmission of retained files that all succeed
\* raises no failure alert.
C28_AlertOnlyOnFailure ==
    [][ReconcileStep => (alertText' = SomeFailedAlert <=> FailedIds # {})]_vars

(***************************************************************************)
(*            PROPERTIES: LIST, FETCH AND DELETE ROUTES                    *)
(***************************************************************************)

\* The request has been answered.
ProxyAnswered(route) == ppc = "done" /\ preq.route = route

\* The one response written for the request.
ProxyReply == proxySent[1]

\* C21: GET /image/:id and DELETE /image/:id answer 404 with the body
\* "Image not found." when the host call is rejected with a response of
\* status 404, answer 500 when it is rejected for any other reason (another
\* status, no response at all), and answer 200 when it succeeds, with the
\* image payload for GET and "success" for DELETE.
C21_NotFoundMapping ==
    \A route \in {"getImage", "deleteImage"} :
       ProxyAnswered(route) =>
          /\ Len(proxySent) = 1
          /\ hostCalls = 1
          /\ (proxyOutcome.kind = "rejected" /\ proxyOutcome.status = 404) =>
                ProxyReply = [status |-> 404, body |-> "Image not found."]
          /\ (proxyOutcome.kind = "rejected" /\ proxyOutcome.status # 404) =>
                ProxyReply.status = 500
          /\ proxyOutcome.kind = "noResponse" => ProxyReply.status = 500
          /\ proxyOutcome.kind = "resolved" =>
                /\ ProxyReply.status = 200
                /\ ProxyReply.body =
                      IF route = "getImage" THEN proxyOutcome.data ELSE "success"

\* DELETE /image/gone was answered 404 after the host had reported 404.
C21_Witness ==
    /\ ProxyAnswered("deleteImage")
    /\ preq.imageid = "gone"
    /\ proxyOutcome.kind = "rejected"
    /\ proxyOutcome.status = 404
    /\ ProxyReply.status = 404

\* The host's answer to the list request was a rejection with status 404.
ListHost404 == proxyOutcome.kind = "rejected" /\ proxyOutcome.status = 404

\* The host's answer to the list request carried a list of images.
ListRelayed == proxyOutcome.kind = "resolved" /\ proxyOutcome.wellFormed

\* C22 as stated: GET /images issues one outbound call, answers a host 404
\* with a local 404 and the fixed not-found message, answers any other
\* failure with a local 500, and otherwise relays the transformed list with
\* status 200.
C22_AsStated ==
    ProxyAnswered("images") =>
       /\ hostCalls = 1
       /\ ListHost404 => ProxyReply = [status |-> 404, body |-> "Image not found."]
       /\ (~ListHost404 /\ ~ListRelayed) => ProxyReply.status = 500
       /\ ListRelayed => ProxyReply.status = 200

\* C22: GET /images issues exactly one outbound call and writes exactly one
\* response; every failure of that call, a host 404 included, and a host
\* response without a list of images, is answered with a local 500 and the
\* body "Failed to fetch images from Imgur."; otherwise the transformed list
\* is relayed with status 200 and one entry per image of the host's list.
C22_ListFailureMapping ==
    ProxyAnswered("images") =>
       /\ hostCalls = 1
       /\ Len(proxySent) = 1
       /\ ~ListRelayed =>
             ProxyReply = [status |-> 500, body |-> "Failed to fetch images from Imgur."]
       /\ ListRelayed =>
             /\ ProxyReply.status = 200
             /\ Len(ProxyReply.body) = Len(proxyOutcome.data)

\* GET /images was answered 500 after the host had reported 404.
C22_Witness ==
    /\ ProxyAnswered("images")
    /\ ListHost404
    /\ ProxyReply.status = 500

\* The position of the last dot of a link, 0 when it has none.
LastDot(link) ==
    IF \E k \in 1..Len(link) : link[k] = "."
    THEN CHOOSE k \in 1..Len(link) :
            /\ link[k] = "."
            /\ \A j \in (k + 1)..Len(link) : link[j] # "."
    ELSE 0

\* The link ends in a dot followed by lowercase letters.
HasLowercaseExtension(link) ==
    /\ LastDot(link) > 0
    /\ LastDot(link) < Len(link)
    /\ \A j \in (LastDot(link) + 1)..Len(link) : link[j] \in Lower

\* C23: every image of the host's list is relayed by GET /images at the same
\* position with every field but the link unchanged; a link that ends in a
\* dot followed by lowercase letters gets the size token "m" inserted
\* immediately before that dot, so that it is one character longer and reads
\* the same before the token and after it; any other link is relayed
\* unchanged.
C23_ThumbnailRewrite ==
    (ProxyAnswered("images") /\ ListRelayed) =>
       /\ Len(ProxyReply.body) = Len(proxyOutcome.data)
       /\ \A i \in 1..Len(proxyOutcome.data) :
             LET host    == proxyOutcome.data[i]
                 relayed == ProxyReply.body[i]
                 d       == LastDot(host.link)
             IN  /\ relayed.id = host.id
                 /\ relayed.title = host.title
                 /\ DOMAIN relayed = DOMAIN host
                 /\ IF HasLowercaseExtension(host.link)
                    THEN /\ Len(relayed.link) = Len(host.link) + 1
                         /\ relayed.link[d] = "m"
                         /\ \A j \in 1..(d - 1) : relayed.link[j] = host.link[j]
                         /\ \A j \in d..Len(host.link) :
                               relayed.link[j + 1] = host.link[j]
                    ELSE relayed.link = host.link

\* A list with h/a.b.png and h/a.JPG was relayed as h/a.bm.png and h/a.JPG.
C23_Witness ==
    /\ ProxyAnswered("images")
    /\ ListRelayed
    /\ Len(proxyOutcome.data) = 2
    /\ proxyOutcome.data[1].link = <<"h", "/", "a", ".", "b", ".", "p", "n", "g">>
    /\ ProxyReply.body[1].link = <<"h", "/", "a", ".", "b", "m", ".", "p", "n", "g">>
    /\ proxyOutcome.data[2].link = <<"h", "/", "a", ".", "J", "P", "G">>
    /\ ProxyReply.body[2].link = <<"h", "/", "a", ".", "J", "P", "G">>

(***************************************************************************)
(*                       PROPERTIES: IMAGE GRID                            *)
(***************************************************************************)

\* The ids of a list of images.
Elems(list) == {list[i] : i \in 1..Len(list)}

\* The outcome is a response with response.ok.
IsOk(outcome) == outcome.kind = "response" /\ outcome.status \in 200..299

\* C24: when the delete request of handleDelete settles with an ok response
\* the image of the given id, and no other, leaves the displayed list; when
\* it settles with a 404, another non-ok response or a thrown error the
\* displayed list is as before; while the request is in flight isDeleting is
\* true and no delete button can be used, and isDeleting is false once the
\* request has settled.
C24_GalleryDelete ==
    [][/\ \A o \in DeleteFetchOutcomes :
             DeleteSettle(o) =>
                /\ IsOk(o) =>
                      /\ Elems(images') = Elems(images) \ {deleting}
                      /\ Len(images') = Cardinality(Elems(images'))
                /\ ~IsOk(o) => images' = images
                /\ ~isDeleting'
       /\ \A imageId \in GalleryIds :
             ImageGridHandleDelete(imageId) => (isDeleting' /\ images' = images)
       /\ deleting # NoDelete =>
             /\ isDeleting
             /\ \A imageId \in GalleryIds : ~ENABLED ImageGridHandleDelete(imageId)
      ]_vars

\* The delete of img1 has returned ok: img2 alone is displayed, and the
\* buttons are enabled again.
C24_Witness ==
    /\ images = <<"img2">>
    /\ hostImages = <<"img2">>
    /\ deleting = NoDelete
    /\ ~isDeleting
    /\ ~isError
    /\ gridAlert = NoAlert

\* C29: an image that the host has deleted on an ok delete of the gallery,
\* and that has left the displayed list, does not come back into the
\* displayed list by a list request that was started before the delete
\* completed (its answer shows the image, which the host has no more).
C29_DeletedStaysGone ==
    [][\A imageId \in GalleryIds :
          (imageId \notin Elems(hostImages) /\ imageId \notin Elems(images)) =>
             imageId \notin Elems(images')
      ]_vars

\* C30: a list request is started only when recompute is true; a list
\* request that fails sets isError and leaves recompute; and when a list
\* request succeeds the gallery shows the fetched images, not the error
\* message.
C30_ErrorRecovery ==
    [][/\ listFetches' > listFetches => recompute'
       /\ \A i \in 1..Len(listReplies), o \in FetchOutcomes :
             ListFetchSettle(i, o) =>
                IF IsOk(o)
                THEN images' = listReplies[i] /\ ~isError'
                ELSE isError' /\ recompute' = recompute
      ]_vars

=============================================================================
